---- MODULE Spec2Model ----
(***************************************************************************)
(* Model of tensorboard/platforms/gcp/spanner.py: the SQL statement        *)
(* classifier (parse_sql, INSERT_PATTERN, SELECT_PATTERN, SelectSQL) and   *)
(* the PEP 249 cursor CloudSpannerCursor built on top of the Cloud Spanner *)
(* batch / session primitives.                                             *)
(*                                                                         *)
(* Text is modelled as a sequence of one-character strings so that the     *)
(* regular expressions and the parameter substitution act on characters.   *)
(***************************************************************************)
EXTENDS Integers, Sequences, FiniteSets, TLC

\* ------------------------------------------------------------------------
\* Bounds of the model
\* ------------------------------------------------------------------------
MaxRows == 2        \* longest result set the backend returns
NumRowVals == 2     \* number of distinct rows the backend can return
MaxSize == 2        \* largest size passed to fetchmany
MaxIndex == 4       \* cap on the read position (fetchmany can grow it)
MaxBatches == 2     \* cap on the number of committed batches
MaxSessions == 2    \* cap on the number of sessions created
NumCursors == 2     \* cap on the cursors one connection makes
MaxInstances == 3   \* cap on the instance handles constructed
MaxDatabases == 2   \* cap on the database handles constructed
MaxColumns == 2     \* cap on the columns of a statement or of a table

\* ------------------------------------------------------------------------
\* Characters
\* ------------------------------------------------------------------------
LowerCase == <<"a","b","c","d","e","f","g","h","i","j","k","l","m",
               "n","o","p","q","r","s","t","u","v","w","x","y","z">>

UpperCase == <<"A","B","C","D","E","F","G","H","I","J","K","L","M",
               "N","O","P","Q","R","S","T","U","V","W","X","Y","Z">>

DigitChars == <<"0","1","2","3","4","5","6","7","8","9">>

Range(f) == {f[x] : x \in DOMAIN f}

\* re.IGNORECASE compares characters after case folding
ToLower(c) ==
  IF \E i \in 1..26 : UpperCase[i] = c
  THEN LowerCase[CHOOSE i \in 1..26 : UpperCase[i] = c]
  ELSE c

\* \s of the re module
IsSpace(c) == c \in {" ", "\t", "\n", "\r", "\f"}

\* [a-z0-9_] under re.IGNORECASE
ClsIdent(c) == ToLower(c) \in Range(LowerCase) \cup Range(DigitChars) \cup {"_"}

\* [a-z0-9,_\s] under re.IGNORECASE (column list of INSERT and of SELECT)
ClsIdentList(c) == ClsIdent(c) \/ c = "," \/ IsSpace(c)

\* [a-z0-9,_] under re.IGNORECASE (table of SELECT)
ClsTable(c) == ClsIdent(c) \/ c = ","

\* [a-zA-z0-9_] without IGNORECASE: the range A-z also holds the six
\* characters between Z and a (the grave accent among them is not a
\* character of the model's alphabet)
ClsColName(c) ==
  c \in Range(LowerCase) \cup Range(UpperCase) \cup Range(DigitChars)
        \cup {"[", "\\", "]", "^", "_"}

\* . of the re module: anything but a newline
ClsDot(c) == c # "\n"

\* c is a character of the class named X
InClass(X, c) ==
  CASE X = "\\s" -> IsSpace(c)
    [] X = "[a-z0-9_]" -> ClsIdent(c)
    [] X = "[a-z0-9,_\\s]" -> ClsIdentList(c)
    [] X = "[a-z0-9,_]" -> ClsTable(c)
    [] X = "[a-zA-z0-9_]" -> ClsColName(c)
    [] X = "." -> ClsDot(c)

\* ------------------------------------------------------------------------
\* Regular expressions
\* ------------------------------------------------------------------------
\* The patterns of the module are concatenations of literals and of greedy
\* runs X* of a character class, some of them capturing groups.
Lit(text) == [t |-> "lit", text |-> text, cls |-> "", grp |-> FALSE]

Star(X) == [t |-> "star", text |-> <<>>, cls |-> X, grp |-> FALSE]

Group(X) == [t |-> "star", text |-> <<>>, cls |-> X, grp |-> TRUE]

Sub(s, a, b) == IF b < a THEN <<>> ELSE SubSeq(s, a, b)

FirstOr(S, d) == IF S = {} THEN d ELSE CHOOSE k \in S : \A m \in S : k <= m

LastOf(S) == CHOOSE k \in S : \A m \in S : m <= k

\* end (exclusive) of the longest run of characters of class X from i on
SpanEnd(s, i, X) ==
  FirstOr({k \in i..Len(s) : ~InClass(X, s[k])}, Len(s) + 1)

\* the literal text (lower case) is at position i of s, ignoring case
LitAt(s, i, text) ==
  /\ i + Len(text) - 1 <= Len(s)
  /\ \A k \in 1..Len(text) : ToLower(s[i + k - 1]) = text[k]

NoMatch == [ok |-> FALSE, g |-> <<>>]

\* the match r of the rest of a pattern, with the text of a group before it
Captured(grp, text, r) ==
  IF grp /\ r.ok THEN [ok |-> TRUE, g |-> <<text>> \o r.g] ELSE r

RECURSIVE Match(_, _, _, _)
\* pattern.match: the items k.. of pattern p matched at position i of s; a
\* run takes the most characters that let the rest of the pattern match. g
\* holds the groups in order.
Match(p, k, s, i) ==
  IF k > Len(p) THEN [ok |-> TRUE, g |-> <<>>]
  ELSE IF p[k].t = "lit"
  THEN IF LitAt(s, i, p[k].text)
       THEN Match(p, k + 1, s, i + Len(p[k].text))
       ELSE NoMatch
  ELSE LET js == {j \in i..SpanEnd(s, i, p[k].cls) : Match(p, k + 1, s, j).ok}
       IN  IF js = {} THEN NoMatch
           ELSE Captured(p[k].grp, Sub(s, i, LastOf(js) - 1),
                         Match(p, k + 1, s, LastOf(js)))

\* \s*insert\s*into\s*([a-z0-9_]*)\s*\(([a-z0-9,_\s]*)\)\s*values\s*\((.*)\)
INSERT_PATTERN ==
  <<Star("\\s"), Lit(<<"i","n","s","e","r","t">>), Star("\\s"),
    Lit(<<"i","n","t","o">>), Star("\\s"), Group("[a-z0-9_]"), Star("\\s"),
    Lit(<<"(">>), Group("[a-z0-9,_\\s]"), Lit(<<")">>), Star("\\s"),
    Lit(<<"v","a","l","u","e","s">>), Star("\\s"), Lit(<<"(">>), Group("."),
    Lit(<<")">>)>>

\* \s*select.*
SELECT_PATTERN ==
  <<Star("\\s"), Lit(<<"s","e","l","e","c","t">>), Star(".")>>

\* SelectSQL._PATTERN: \s*select\s*([a-z0-9_,\s]*)from\s*([a-z0-9,_]*).*
SelectSQL_PATTERN ==
  <<Star("\\s"), Lit(<<"s","e","l","e","c","t">>), Star("\\s"),
    Group("[a-z0-9,_\\s]"), Lit(<<"f","r","o","m">>), Star("\\s"),
    Group("[a-z0-9,_]"), Star(".")>>

\* SelectSQL._COL_NAME_PATTERN: \s*([a-zA-z0-9_]*)\s*.*
COL_NAME_PATTERN ==
  <<Star("\\s"), Group("[a-zA-z0-9_]"), Star("\\s"), Star(".")>>

\* ------------------------------------------------------------------------
\* str methods
\* ------------------------------------------------------------------------
RECURSIVE Split(_, _)
\* s.split(sep) for a one-character separator
Split(s, sep) ==
  IF \A k \in 1..Len(s) : s[k] # sep
  THEN <<s>>
  ELSE LET j == CHOOSE k \in 1..Len(s) :
                  s[k] = sep /\ \A m \in 1..(k - 1) : s[m] # sep
       IN  <<Sub(s, 1, j - 1)>> \o Split(Sub(s, j + 1, Len(s)), sep)

\* s.strip()
Strip(s) ==
  Sub(s, SpanEnd(s, 1, "\\s"),
      FirstOr({k \in 1..Len(s) : \A m \in k..Len(s) : IsSpace(s[m])},
              Len(s) + 1) - 1)

RECURSIVE Replace(_, _, _)
\* s.replace(old, new) for a one-character old
Replace(s, old, new) ==
  IF s = <<>> THEN <<>>
  ELSE (IF Head(s) = old THEN new ELSE <<Head(s)>>)
         \o Replace(Tail(s), old, new)

RECURSIVE Digits(_)
Digits(n) ==
  IF n < 10 THEN <<DigitChars[n + 1]>>
  ELSE Digits(n \div 10) \o <<DigitChars[(n % 10) + 1]>>

\* parameter values: Python int, str or bool
IntParam(n) == [t |-> "int", i |-> n, s |-> <<>>, b |-> FALSE]

StrParam(x) == [t |-> "str", i |-> 0, s |-> x, b |-> FALSE]

BoolParam(x) == [t |-> "bool", i |-> 0, s |-> <<>>, b |-> x]

\* format(p, ""): the text "{}" renders a value as
Str(p) ==
  CASE p.t = "int" -> (IF p.i < 0 THEN <<"-">> \o Digits(0 - p.i)
                       ELSE Digits(p.i))
    [] p.t = "bool" -> (IF p.b THEN <<"T","r","u","e">>
                        ELSE <<"F","a","l","s","e">>)
    [] OTHER -> p.s

CharAt(s, i, c) == i <= Len(s) /\ s[i] = c

\* text put before the outcome r of formatting the rest of the string
Emit(text, r) == [err |-> r.err, out |-> text \o r.out]

RECURSIVE Format(_, _, _, _)
\* s.format(*args) from position i with n fields already consumed
Format(s, i, args, n) ==
  IF i > Len(s) THEN [err |-> "", out |-> <<>>]
  ELSE IF s[i] = "{" THEN
    IF CharAt(s, i + 1, "{") THEN Emit(<<"{">>, Format(s, i + 2, args, n))
    ELSE IF CharAt(s, i + 1, "}") THEN
      IF n + 1 > Len(args) THEN [err |-> "IndexError", out |-> <<>>]
      ELSE Emit(Str(args[n + 1]), Format(s, i + 2, args, n + 1))
    ELSE [err |-> "ValueError", out |-> <<>>]
  ELSE IF s[i] = "}" THEN
    IF CharAt(s, i + 1, "}") THEN Emit(<<"}">>, Format(s, i + 2, args, n))
    ELSE [err |-> "ValueError", out |-> <<>>]
  ELSE Emit(<<s[i]>>, Format(s, i + 1, args, n))

\* ------------------------------------------------------------------------
\* Parsed statements
\* ------------------------------------------------------------------------
\* parse_sql returned None
ParsedNone ==
  [kind |-> "none", err |-> "", table |-> <<>>, columns |-> <<>>,
   values |-> <<>>, sql |-> <<>>]

\* parse_sql raised
ParsedError(e) ==
  [kind |-> "error", err |-> e, table |-> <<>>, columns |-> <<>>,
   values |-> <<>>, sql |-> <<>>]

InsertSQL(table, columns, values) ==
  [kind |-> "insert", err |-> "", table |-> table, columns |-> columns,
   values |-> values, sql |-> <<>>]

\* the first group of _COL_NAME_PATTERN on every item of the select list
ColumnNames(columns) ==
  [k \in 1..Len(columns) |-> Match(COL_NAME_PATTERN, 1, columns[k], 1).g[1]]

\* SelectSQL.__init__ once _PATTERN was matched, m being the match
SelectSQL_matched(sql, m) ==
  IF ~m.ok THEN ParsedError("ValueError")
  ELSE [kind |-> "select", err |-> "", table |-> m.g[2],
        columns |-> ColumnNames(Split(m.g[1], ",")),
        values |-> <<>>, sql |-> sql]

SelectSQL(sql) == SelectSQL_matched(sql, Match(SelectSQL_PATTERN, 1, sql, 1))

\* strings need to be quoted
QuoteParams(parameters) ==
  [k \in 1..Len(parameters) |->
     IF parameters[k].t = "str"
     THEN StrParam(<<"\"">> \o parameters[k].s \o <<"\"">>)
     ELSE parameters[k]]

\* [c.strip() for c in cs]
Stripped(cs) == [k \in 1..Len(cs) |-> Strip(cs[k])]

\* parse_sql from the match m of INSERT_PATTERN on
parse_sql_matched(sql, m) ==
  IF m.ok
  THEN InsertSQL(m.g[1], Stripped(Split(m.g[2], ",")),
                 Stripped(Split(m.g[3], ",")))
  ELSE IF Match(SELECT_PATTERN, 1, sql, 1).ok THEN SelectSQL(sql)
  ELSE ParsedNone

\* parse_sql once the variables are substituted, f being the outcome of
\* sql.format
parse_sql_substituted(f) ==
  IF f.err # "" THEN ParsedError(f.err)
  ELSE parse_sql_matched(f.out, Match(INSERT_PATTERN, 1, f.out, 1))

parse_sql(sql, parameters) ==
  parse_sql_substituted(Format(Replace(sql, "?", <<"{", "}">>), 1,
                               QuoteParams(parameters), 0))

\* ------------------------------------------------------------------------
\* Inputs
\* ------------------------------------------------------------------------
SqlInsert == <<"I","N","S","E","R","T"," ","I","N","T","O"," ","T"," ","(","a",","," ","b",")"," ","V","A","L","U","E","S"," ","(","?",","," ","?",")">>

SqlSelectWhere == <<"s","e","l","e","c","t"," ","a",","," ","b"," ","f","r","o","m"," ","T"," ","w","h","e","r","e"," ","a"," ","="," ","?">>

SqlUpdate == <<"u","p","d","a","t","e"," ","T"," ","s","e","t"," ","a"," ","="," ","?"," ","w","h","e","r","e"," ","b"," ","="," ","?">>

SqlSelectAll == <<"S","E","L","E","C","T"," ","b"," ","f","r","o","m"," ","T">>

SqlSelectStar == <<"s","e","l","e","c","t"," ","*"," ","f","r","o","m"," ","T">>

\* the statements and the parameter tuples execute is called with; a call
\* names its arguments by their positions in these tables
SqlInputs == <<SqlInsert, SqlSelectWhere, SqlUpdate, SqlSelectAll, SqlSelectStar>>

ParamInputs == << <<>>, <<IntParam(7)>>, <<IntParam(1), StrParam(<<"p">>)>> >>

\* rows are opaque values; the backend answers a query with any sequence
\* of at most MaxRows of them
RowVals == 1..NumRowVals

ResultSets == UNION {[1..n -> RowVals] : n \in 0..MaxRows}

\* the size argument of fetchmany: None or a row count
NoSize == [given |-> FALSE, n |-> 0]

Size(k) == [given |-> TRUE, n |-> k]

SizeInputs == {NoSize} \cup {Size(k) : k \in 0..MaxSize}

\* where the backend lets a call fail: nowhere, at the commit of the
\* batch, at session.create(), or at execute_sql / consume_all
Failures == {"none", "commit", "create", "query"}

None == "None"

DatabaseId == "database_id"

\* handles are numbered from 1 in order of construction; None is no handle
NoHandle == 0

\* no call of parse_sql
NotParsing ==
  [form |-> "", table |-> <<>>, columns |-> <<>>, sql |-> <<>>,
   parameters |-> <<>>, done |-> FALSE, parsed |-> ParsedNone]

\* no call of to_spanner_type or to_spanner_ddl
NotConverting == "None"

\* ------------------------------------------------------------------------
\* State
\* ------------------------------------------------------------------------
VARIABLES
  results,       \* CloudSpannerCursor._results
  rindex,        \* CloudSpannerCursor._rindex
  descriptions,  \* CloudSpannerCursor._descriptions
  database,      \* CloudSpannerCursor.database
  batches,       \* backend: the batches committed, each a sequence of mutations
  sessions,      \* backend: the sessions created, with the queries run on each
  streamed,      \* backend: the rows of the last result set it streamed
  lastOp,        \* the last call on the cursor with its outcome
  fetched,       \* the rows the fetch calls returned since the last SELECT
  connection,    \* CloudSpannerConnection: _instance and _database
  instances,     \* the number of spanner.client.Instance objects constructed
  databases,     \* the Database objects constructed, in order of construction
  cursors,       \* the CloudSpannerCursor objects the connection made
  lastCall,      \* the last call on the connection or on one of its cursors
  parsing,       \* a call of parse_sql: its arguments and what it returned
  converting     \* a call of to_spanner_type or to_spanner_ddl

vars ==
  <<results, rindex, descriptions, database, batches, sessions, streamed,
    lastOp, fetched, connection, instances, databases, cursors, lastCall,
    parsing, converting>>

\* the cursor under study on its own
single == <<results, rindex, descriptions, database, batches, sessions,
            streamed, lastOp, fetched>>

\* a connection and the cursors it makes
connected == <<connection, instances, databases, cursors, lastCall>>

\* the calls of the module's functions
functions == <<parsing, converting>>

cursor == <<results, rindex, descriptions>>

backend == <<batches, sessions, streamed>>

\* a call and its outcome: sql, params and size are its arguments, ret holds
\* the rows returned, none tells that the call returned None, err names the
\* exception raised ("" when none)
Call(op, sql, params, ret, none, err) ==
  [op |-> op, sql |-> sql, params |-> params, size |-> NoSize, ret |-> ret,
   none |-> none, err |-> err]

\* a call other than execute has no statement and no parameters (0)
Returned(op, ret, none) == Call(op, 0, 0, ret, none, "")

\* the cursor and the connection as their constructors leave them
Constructed ==
  /\ results = <<>>
  /\ rindex = 0
  /\ descriptions = <<>>
  /\ database = None
  /\ batches = <<>>
  /\ sessions = <<>>
  /\ streamed = <<>>
  /\ lastOp = Returned("init", <<>>, TRUE)
  /\ fetched = <<>>
  /\ connection = [instance |-> NoHandle, database |-> NoHandle]
  /\ instances = 0
  /\ databases = <<>>
  /\ cursors = <<>>
  /\ lastCall = [cursor |-> 0, op |-> "init"]

Init ==
  /\ Constructed
  /\ parsing = NotParsing
  /\ converting = NotConverting

\* s[a:b] of Python for 0 <= a, 0 <= b
Slice(s, a, b) ==
  LET e == IF b < Len(s) THEN b ELSE Len(s) IN
  [k \in 1..(IF e > a THEN e - a ELSE 0) |-> s[a + k]]

\* rowcount property
rowcount == Len(results)

\* description property
description == descriptions

UnsupportedError == "ValueError: SQL query is not supported for Cloud Spanner"

BackendError == "GaxError"

\* values=parsed.values instead of values=[parsed.values]: every value
\* becomes a row of its own
InsertMutation_unwrapped(parsed) ==
  [op |-> "insert", table |-> parsed.table, columns |-> parsed.columns,
   values |-> [k \in 1..Len(parsed.values) |-> <<parsed.values[k]>>]]

\* the mutation batch.insert(table, columns, values=[parsed.values]) records
InsertMutation(parsed) ==
  [op |-> "insert", table |-> parsed.table, columns |-> parsed.columns,
   values |-> <<parsed.values>>]

\* the descriptions are appended to those of the previous SELECT
Descriptions_appended(parsed) ==
  descriptions \o
  [k \in 1..Len(parsed.columns) |->
     <<parsed.columns[k], None, None, None, None, None, None>>]

\* the column descriptions execute builds for a SELECT
Descriptions(parsed) ==
  [k \in 1..Len(parsed.columns) |->
     <<parsed.columns[k], None, None, None, None, None, None>>]

\* parse_sql over the inputs of the model, evaluated once
ParseTable ==
  {<<sql, parameters, parse_sql(SqlInputs[sql], ParamInputs[parameters])>> :
     sql \in DOMAIN SqlInputs, parameters \in DOMAIN ParamInputs}

\* parsed = parse_sql(sql, parameters), for the statement and the parameter
\* tuple at positions sql and parameters of the input tables
Parsed(sql, parameters) ==
  (CHOOSE e \in ParseTable : e[1] = sql /\ e[2] = parameters)[3]

\* the buffer is cleared before the statement is looked at
execute_raise_cleared(sql, parameters, err) ==
  /\ lastOp' = Call("execute", sql, parameters, <<>>, FALSE, err)
  /\ results' = <<>>
  /\ rindex' = 0
  /\ UNCHANGED <<descriptions, backend, fetched>>

\* execute leaves by an exception of parse_sql or by its own ValueError
execute_raise(sql, parameters, err) ==
  /\ lastOp' = Call("execute", sql, parameters, <<>>, FALSE, err)
  /\ UNCHANGED <<cursor, backend, fetched>>

\* execute, the InsertSQL branch; the commit of the batch on leaving the
\* with block may fail
execute_insert(sql, parameters, parsed, fail) ==
  /\ fail \in {"none", "commit"}
  /\ Len(batches) < MaxBatches
  /\ IF fail = "commit"
     THEN /\ lastOp' = Call("execute", sql, parameters, <<>>, FALSE,
                            BackendError)
          /\ UNCHANGED batches
     ELSE /\ batches' = Append(batches, <<InsertMutation(parsed)>>)
          /\ lastOp' = Call("execute", sql, parameters, <<>>, TRUE, "")
  /\ UNCHANGED <<cursor, sessions, streamed, fetched>>

\* execute, the SelectSQL branch; session.create() and execute_sql /
\* consume_all may fail
execute_select(sql, parameters, parsed, fail) ==
  /\ fail \in {"none", "create", "query"}
  /\ Len(sessions) < MaxSessions
  /\ CASE fail = "create" ->
            /\ lastOp' = Call("execute", sql, parameters, <<>>, FALSE,
                              BackendError)
            /\ UNCHANGED <<cursor, sessions, streamed, fetched>>
       [] fail = "query" ->
            /\ sessions' = Append(sessions, [open |-> TRUE, queries |-> <<>>])
            /\ lastOp' = Call("execute", sql, parameters, <<>>, FALSE,
                              BackendError)
            /\ UNCHANGED <<cursor, streamed, fetched>>
       [] OTHER ->
            /\ sessions' = Append(sessions,
                                  [open |-> TRUE, queries |-> <<parsed.sql>>])
            /\ \E rows \in ResultSets : streamed' = rows /\ results' = rows
            /\ rindex' = 0
            /\ descriptions' = Descriptions(parsed)
            /\ fetched' = <<>>
            /\ lastOp' = Call("execute", sql, parameters, <<>>, TRUE, "")
  /\ UNCHANGED batches

\* execute from line 206 on, parsed being what parse_sql returned
execute_parsed(sql, parameters, parsed, fail) ==
  /\ database' = DatabaseId
  /\ UNCHANGED <<connected, functions>>
  /\ CASE parsed.kind = "error" ->
            fail = "none" /\ execute_raise(sql, parameters, parsed.err)
       [] parsed.kind = "none" ->
            fail = "none" /\ execute_raise(sql, parameters, UnsupportedError)
       [] parsed.kind = "insert" ->
            execute_insert(sql, parameters, parsed, fail)
       [] parsed.kind = "select" ->
            execute_select(sql, parameters, parsed, fail)

\* CloudSpannerCursor.execute(sql, parameters) on the statement and the
\* parameter tuple at positions sql and parameters of the input tables;
\* fail is where the backend lets the call fail
execute(sql, parameters, fail) ==
  execute_parsed(sql, parameters, Parsed(sql, parameters), fail)

\* rindex += 1 moved out of the if
fetchone_always_advancing ==
  /\ rindex < MaxIndex
  /\ rindex' = rindex + 1
  /\ IF rindex < Len(results)
     THEN lastOp' = Returned("fetchone", <<results[rindex' - 1 + 1]>>, FALSE)
     ELSE lastOp' = Returned("fetchone", <<>>, TRUE)
  /\ fetched' = fetched \o lastOp'.ret
  /\ UNCHANGED <<results, descriptions, database, backend, connected, functions>>

\* CloudSpannerCursor.fetchone()
fetchone ==
  /\ IF rindex < Len(results)
     THEN /\ rindex' = rindex + 1
          /\ lastOp' = Returned("fetchone", <<results[rindex' - 1 + 1]>>, FALSE)
     ELSE /\ lastOp' = Returned("fetchone", <<>>, TRUE)
          /\ UNCHANGED rindex
  /\ fetched' = fetched \o lastOp'.ret
  /\ UNCHANGED <<results, descriptions, database, backend, connected, functions>>

\* self._rindex = end_index left out
fetchmany_not_advancing(size) ==
  LET start_index == rindex
      end_index == IF size.given THEN start_index + size.n ELSE Len(results)
  IN  /\ end_index <= MaxIndex
      /\ lastOp' = [Returned("fetchmany",
                              Slice(results, start_index, end_index), FALSE)
                       EXCEPT !.size = size]
      /\ fetched' = fetched \o lastOp'.ret
      /\ UNCHANGED <<cursor, database, backend, connected, functions>>

\* CloudSpannerCursor.fetchmany(size)
fetchmany(size) ==
  LET start_index == rindex
      end_index == IF size.given THEN start_index + size.n ELSE Len(results)
  IN  /\ end_index <= MaxIndex
      /\ rindex' = end_index
      /\ lastOp' = [Returned("fetchmany",
                              Slice(results, start_index, end_index), FALSE)
                       EXCEPT !.size = size]
      /\ fetched' = fetched \o lastOp'.ret
      /\ UNCHANGED <<results, descriptions, database, backend, connected, functions>>

\* self._rindex = end_index left out
fetchall_not_advancing ==
  LET start_index == rindex
      end_index == Len(results)
  IN  /\ lastOp' = Returned("fetchall",
                            Slice(results, start_index, end_index), FALSE)
      /\ fetched' = fetched \o lastOp'.ret
      /\ UNCHANGED <<cursor, database, backend, connected, functions>>

\* CloudSpannerCursor.fetchall()
fetchall ==
  LET start_index == rindex
      end_index == Len(results)
  IN  /\ rindex' = end_index
      /\ lastOp' = Returned("fetchall",
                            Slice(results, start_index, end_index), FALSE)
      /\ fetched' = fetched \o lastOp'.ret
      /\ UNCHANGED <<results, descriptions, database, backend, connected, functions>>

\* a close that raises on a cursor that is already closed
close_once ==
  /\ lastOp' = IF lastOp.op = "close"
               THEN Call("close", 0, 0, <<>>, FALSE, "ProgrammingError")
               ELSE Returned("close", <<>>, TRUE)
  /\ UNCHANGED <<cursor, database, backend, fetched, connected, functions>>

\* CloudSpannerCursor.close()
close ==
  /\ lastOp' = Returned("close", <<>>, TRUE)
  /\ UNCHANGED <<cursor, database, backend, fetched, connected, functions>>

RECURSIVE Yield(_, _)
\* the rows the generator of __iter__ yields from position i of rows on
Yield(rows, i) ==
  IF i > Len(rows) THEN <<>> ELSE <<rows[i]>> \o Yield(rows, i + 1)

\* an iteration that shares the read position of the fetch calls
iterate_from_rindex ==
  /\ lastOp' = Returned("iter", Yield(results, rindex + 1), FALSE)
  /\ UNCHANGED <<cursor, database, backend, fetched, connected, functions>>

\* for row in cursor: CloudSpannerCursor.__iter__ run to exhaustion
iterate ==
  /\ lastOp' = Returned("iter", Yield(results, 1), FALSE)
  /\ UNCHANGED <<cursor, database, backend, fetched, connected, functions>>

Next ==
  \/ \E sql \in DOMAIN SqlInputs, parameters \in DOMAIN ParamInputs,
        fail \in Failures :
       execute(sql, parameters, fail)
  \/ fetchone
  \/ \E size \in SizeInputs : fetchmany(size)
  \/ fetchall
  \/ close
  \/ iterate

Spec == Init /\ [][Next]_vars

\* ------------------------------------------------------------------------
\* A connection and its cursors
\* ------------------------------------------------------------------------
\* the Database object instance.database(database_id) constructs on the
\* instance handle instance (what the statements do to the data of the
\* backend is modelled with the single cursor above)
Database(instance) == [instance |-> instance]

\* the call on the connection or on one of its cursors (0: the connection);
\* what the fetch calls return is modelled with the single cursor above
Calling(c, op) == lastCall' = [cursor |-> c, op |-> op]

\* CloudSpannerConnection.instance
Connection_instance ==
  /\ Calling(0, "instance")
  /\ IF connection.instance = NoHandle
     THEN /\ instances < MaxInstances
          /\ instances' = instances + 1
          /\ connection' = [connection EXCEPT !.instance = instances + 1]
     ELSE UNCHANGED <<connection, instances>>
  /\ UNCHANGED <<databases, cursors, single, functions>>

\* CloudSpannerConnection.database, with the instance property it reads
Connection_database ==
  /\ Calling(0, "database")
  /\ IF connection.database # NoHandle
     THEN UNCHANGED <<connection, instances, databases>>
     ELSE /\ Len(databases) < MaxDatabases
          /\ IF connection.instance = NoHandle
             THEN /\ instances < MaxInstances
                  /\ instances' = instances + 1
                  /\ connection' = [instance |-> instances',
                                    database |-> Len(databases) + 1]
             ELSE /\ connection' = [connection EXCEPT
                                      !.database = Len(databases) + 1]
                  /\ UNCHANGED instances
          /\ databases' = Append(databases, Database(connection'.instance))
  /\ UNCHANGED <<cursors, single, functions>>

\* CloudSpannerCursor.__init__ with the Instance object it constructs
CloudSpannerCursor(instance) ==
  [instance |-> instance, database |-> NoHandle, results |-> <<>>,
   rindex |-> 0, descriptions |-> <<>>]

\* CloudSpannerConnection.cursor()
Connection_cursor ==
  /\ Len(cursors) < NumCursors
  /\ instances < MaxInstances
  /\ Calling(Len(cursors) + 1, "cursor")
  /\ instances' = instances + 1
  /\ cursors' = Append(cursors, CloudSpannerCursor(instances'))
  /\ UNCHANGED <<connection, databases, single, functions>>

\* rows, position and descriptions stored on the class instead of on self:
\* every cursor of the connection sees them
Selected_on_class(c, rows, parsed) ==
  [d \in 1..Len(cursors) |->
     [cursors[d] EXCEPT
        !.database = IF d = c THEN Len(databases) + 1 ELSE @,
        !.results = rows, !.rindex = 0,
        !.descriptions = Descriptions(parsed)]]

\* the cursors once cursor c has stored the rows of its SELECT (lines 229
\* to 238), on the database handle execute has just constructed
Selected(c, rows, parsed) ==
  [cursors EXCEPT ![c] = [@ EXCEPT !.database = Len(databases) + 1,
                                   !.results = rows, !.rindex = 0,
                                   !.descriptions = Descriptions(parsed)]]

\* execute of cursor c from line 206 on: self.database becomes a Database
\* object constructed for this call, and the statement runs on it
Cursor_execute_parsed(c, parsed, fail) ==
  /\ Len(databases) < MaxDatabases
  /\ Calling(c, "execute")
  /\ CASE parsed.kind \in {"error", "none"} ->
            /\ fail = "none"
            /\ databases' = Append(databases, Database(cursors[c].instance))
            /\ cursors' = [cursors EXCEPT ![c].database = Len(databases')]
       [] parsed.kind = "insert" ->
            /\ fail \in {"none", "commit"}
            /\ databases' = Append(databases, Database(cursors[c].instance))
            /\ cursors' = [cursors EXCEPT ![c].database = Len(databases')]
       [] parsed.kind = "select" ->
            /\ fail \in {"none", "create", "query"}
            /\ databases' = Append(databases, Database(cursors[c].instance))
            /\ IF fail = "none"
               THEN \E rows \in ResultSets :
                      cursors' = Selected(c, rows, parsed)
               ELSE cursors' = [cursors EXCEPT ![c].database = Len(databases')]
  /\ UNCHANGED <<connection, instances, single, functions>>

\* CloudSpannerCursor.execute on cursor c of the connection
Cursor_execute(c, sql, parameters, fail) ==
  Cursor_execute_parsed(c, Parsed(sql, parameters), fail)

\* CloudSpannerCursor.fetchone on cursor c
Cursor_fetchone(c) ==
  /\ IF cursors[c].rindex < Len(cursors[c].results)
     THEN /\ cursors' = [cursors EXCEPT ![c].rindex = @ + 1]
          /\ Calling(c, "fetchone")
     ELSE /\ Calling(c, "fetchone")
          /\ UNCHANGED cursors
  /\ UNCHANGED <<connection, instances, databases, single, functions>>

\* where fetchmany(size) stops on a cursor at start_index with n rows
EndIndex(start_index, size, n) ==
  IF size.given THEN start_index + size.n ELSE n

\* CloudSpannerCursor.fetchmany on cursor c
Cursor_fetchmany(c, size) ==
  /\ EndIndex(cursors[c].rindex, size, Len(cursors[c].results)) <= MaxIndex
  /\ cursors' = [cursors EXCEPT ![c].rindex =
                   EndIndex(@, size, Len(cursors[c].results))]
  /\ Calling(c, "fetchmany")
  /\ UNCHANGED <<connection, instances, databases, single, functions>>

\* CloudSpannerCursor.fetchall on cursor c
Cursor_fetchall(c) ==
  /\ cursors' = [cursors EXCEPT ![c].rindex = Len(cursors[c].results)]
  /\ Calling(c, "fetchall")
  /\ UNCHANGED <<connection, instances, databases, single, functions>>

\* CloudSpannerCursor.close on cursor c
Cursor_close(c) ==
  /\ Calling(c, "close")
  /\ UNCHANGED <<connection, instances, databases, cursors, single, functions>>

\* for row in cursor, on cursor c
Cursor_iterate(c) ==
  /\ Calling(c, "iter")
  /\ UNCHANGED <<connection, instances, databases, cursors, single, functions>>

NextConnection ==
  \/ Connection_instance
  \/ Connection_database
  \/ Connection_cursor
  \/ \E c \in 1..Len(cursors), sql \in DOMAIN SqlInputs,
        parameters \in DOMAIN ParamInputs, fail \in Failures :
       Cursor_execute(c, sql, parameters, fail)
  \/ \E c \in 1..Len(cursors) : Cursor_fetchone(c)
  \/ \E c \in 1..Len(cursors), size \in SizeInputs : Cursor_fetchmany(c, size)
  \/ \E c \in 1..Len(cursors) : Cursor_fetchall(c)
  \/ \E c \in 1..Len(cursors) : Cursor_close(c)
  \/ \E c \in 1..Len(cursors) : Cursor_iterate(c)

SpecConnection == Init /\ [][NextConnection]_vars

\* ------------------------------------------------------------------------
\* parse_sql on its own
\* ------------------------------------------------------------------------
RECURSIVE Join(_, _)
\* sep.join(items)
Join(items, sep) ==
  IF items = <<>> THEN <<>>
  ELSE IF Len(items) = 1 THEN items[1]
  ELSE items[1] \o sep \o Join(Tail(items), sep)

ToUpper(c) ==
  IF \E i \in 1..26 : LowerCase[i] = c
  THEN UpperCase[CHOOSE i \in 1..26 : LowerCase[i] = c]
  ELSE c

\* a keyword of the statement, in lower or in upper case
Keyword(upper, word) ==
  IF upper THEN [k \in 1..Len(word) |-> ToUpper(word[k])] ELSE word

\* insert into T (c1, ..., ck) values (?, ..., ?)
InsertStatement(upper, table, columns) ==
  Keyword(upper, <<"i","n","s","e","r","t">>) \o <<" ">>
    \o Keyword(upper, <<"i","n","t","o">>) \o <<" ">> \o table \o <<" ","(">>
    \o Join(columns, <<","," ">>) \o <<")"," ">>
    \o Keyword(upper, <<"v","a","l","u","e","s">>) \o <<" ","(">>
    \o Join([k \in 1..Len(columns) |-> <<"?">>], <<","," ">>) \o <<")">>

\* select c1, ..., ck from T <rest>
SelectStatement(upper, table, columns, rest) ==
  Keyword(upper, <<"s","e","l","e","c","t">>) \o <<" ">>
    \o Join(columns, <<","," ">>) \o <<" ">>
    \o Keyword(upper, <<"f","r","o","m">>) \o <<" ">> \o table \o rest

TableName == <<"E","v","_","1">>

ColumnPool == << <<"a">>, <<"b","_","1">>, <<"C","c">>, <<"r","o","w","i","d">> >>

\* the first k columns of the pool
Columns(k) == SubSeq(ColumnPool, 1, k)

\* what follows the table of a SELECT, with the number of its placeholders
Rests ==
  { [text |-> <<>>, placeholders |-> 0],
    [text |-> <<" ","w","h","e","r","e"," ","a"," ","="," ","?">>,
     placeholders |-> 1],
    [text |-> <<" ","w","h","e","r","e"," ","f","r","o","m","a","g","e"," ","="," ","?">>,
     placeholders |-> 1],
    [text |-> <<" ","w","h","e","r","e"," ","s"," ","="," ","'","{","{","}","}","'">>,
     placeholders |-> 0] }

ParamValues ==
  { IntParam(7), IntParam(0 - 3), StrParam(<<"p">>),
    StrParam(<<"x",",","y">>), BoolParam(TRUE) }

\* the tuples of k parameters
ParamTuples(k) == [1..k -> ParamValues]

\* the calls parse_sql(sql, parameters) of the two forms, with the table and
\* the columns the statement was written with
InsertCalls ==
  { [form |-> "insert", table |-> TableName, columns |-> Columns(c[2]),
     sql |-> InsertStatement(c[1], TableName, Columns(c[2])),
     parameters |-> c[3], done |-> FALSE, parsed |-> ParsedNone] :
    c \in UNION { {<<u, n, t>> : u \in BOOLEAN, t \in ParamTuples(n)} :
                  n \in 1..MaxColumns } }

SelectCalls ==
  { [form |-> "select", table |-> TableName, columns |-> Columns(c[2]),
     sql |-> SelectStatement(c[1], TableName, Columns(c[2]), c[3].text),
     parameters |-> c[4], done |-> FALSE, parsed |-> ParsedNone] :
    c \in UNION { {<<u, n, rest, t>> : u \in BOOLEAN, n \in 1..MaxColumns,
                                       t \in ParamTuples(rest.placeholders)} :
                  rest \in Rests } }

InitParse ==
  /\ Constructed
  /\ parsing \in InsertCalls \cup SelectCalls
  /\ converting = NotConverting

\* parse_sql(sql, parameters)
Parse ==
  /\ ~parsing.done
  /\ parsing' = [parsing EXCEPT
                   !.done = TRUE,
                   !.parsed = parse_sql(parsing.sql, parsing.parameters)]
  /\ UNCHANGED <<single, connected, converting>>

NextParse == Parse

SpecParse == InitParse /\ [][NextParse]_vars

\* ------------------------------------------------------------------------
\* to_spanner_type and to_spanner_ddl on their own
\* ------------------------------------------------------------------------
\* the length of a Bytes or String column: None or a number
NoLength == [given |-> FALSE, n |-> 0]

Length(n) == [given |-> TRUE, n |-> n]

\* schema.BoolColumnType(), BytesColumnType(length), Int64ColumnType(),
\* StringColumnType(length), and an instance of the base class ColumnType
ColumnType(type, length) == [type |-> type, length |-> length]

Raised(err) == [err |-> err, out |-> <<>>]

Returns(text) == [err |-> "", out |-> text]

\* the String branch pasted from the Bytes branch and not renamed
to_spanner_type_pasted(column_type) ==
  CASE column_type.type = "BoolColumnType" -> Returns(<<"B","O","O","L">>)
    [] column_type.type = "BytesColumnType" ->
         IF column_type.length.given /\ column_type.length.n # 0
         THEN Returns(<<"B","Y","T","E","S","(">>
                        \o Digits(column_type.length.n) \o <<")">>)
         ELSE Returns(<<"B","Y","T","E","S","(","M","A","X",")">>)
    [] column_type.type = "Int64ColumnType" ->
         Returns(<<"I","N","T","6","4">>)
    [] column_type.type = "StringColumnType" ->
         IF column_type.length.given /\ column_type.length.n # 0
         THEN Returns(<<"B","Y","T","E","S","(">>
                        \o Digits(column_type.length.n) \o <<")">>)
         ELSE Returns(<<"B","Y","T","E","S","(","M","A","X",")">>)
    [] OTHER -> Raised("ValueError")

\* to_spanner_type(column_type): the type string, or the exception raised
to_spanner_type(column_type) ==
  CASE column_type.type = "BoolColumnType" -> Returns(<<"B","O","O","L">>)
    [] column_type.type = "BytesColumnType" ->
         IF column_type.length.given /\ column_type.length.n # 0
         THEN Returns(<<"B","Y","T","E","S","(">>
                        \o Digits(column_type.length.n) \o <<")">>)
         ELSE Returns(<<"B","Y","T","E","S","(","M","A","X",")">>)
    [] column_type.type = "Int64ColumnType" ->
         Returns(<<"I","N","T","6","4">>)
    [] column_type.type = "StringColumnType" ->
         IF column_type.length.given /\ column_type.length.n # 0
         THEN Returns(<<"S","T","R","I","N","G","(">>
                        \o Digits(column_type.length.n) \o <<")">>)
         ELSE Returns(<<"S","T","R","I","N","G","(","M","A","X",")">>)
    [] OTHER -> Raised("ValueError")

\* schema.ColumnSchema(name, value_type)
ColumnSchema(name, value_type) ==
  [name |-> name, value_type |-> value_type, not_null |-> FALSE]

\* schema.TableSchema(name, columns, keys)
TableSchema(name, columns, keys) ==
  [kind |-> "TableSchema", name |-> name, table |-> <<>>,
   columns |-> columns, keys |-> keys, index_columns |-> <<>>]

\* schema.IndexSchema(name, table, columns); the names of its columns are
\* kept apart from the ColumnSchema objects of a table
IndexSchema(name, table, columns) ==
  [kind |-> "IndexSchema", name |-> name, table |-> table,
   columns |-> <<>>, keys |-> <<>>, index_columns |-> columns]

\* '{0} {1}'.format(c.name, to_spanner_type(c.value_type)) for the columns
\* of the table, given what to_spanner_type made of each
ColumnDefinitions(columns, types) ==
  [k \in 1..Len(columns) |-> columns[k].name \o <<" ">> \o types[k].out]

\* every column of the table listed as a key
KeyFields_all_columns(spec) ==
  Join([k \in 1..Len(spec.columns) |-> spec.columns[k].name], <<","," ">>)

\* keys = ', '.join(spec.keys)
KeyFields(spec) == Join(spec.keys, <<","," ">>)

\* to_spanner_ddl for a TableSchema, types being what to_spanner_type made
\* of the columns: the first exception among them leaves the function
TableDDL(spec, types) ==
  IF \E k \in 1..Len(types) : types[k].err # ""
  THEN Raised(types[FirstOr({k \in 1..Len(types) : types[k].err # ""}, 0)].err)
  ELSE Returns(<<"C","R","E","A","T","E"," ","T","A","B","L","E"," ">>
                 \o spec.name \o <<" ","(">>
                 \o Join(ColumnDefinitions(spec.columns, types), <<","," ">>)
                 \o <<")"," ","P","R","I","M","A","R","Y"," ","K","E","Y"," ","(">>
                 \o KeyFields(spec) \o <<")">>)

\* to_spanner_ddl(spec)
to_spanner_ddl(spec) ==
  CASE spec.kind = "TableSchema" ->
         TableDDL(spec, [k \in 1..Len(spec.columns) |->
                           to_spanner_type(spec.columns[k].value_type)])
    [] spec.kind = "IndexSchema" ->
         Returns(<<"C","R","E","A","T","E"," ","U","N","I","Q","U","E"," ","I","N","D","E","X"," ">>
                   \o spec.name \o <<" ","O","N"," ">> \o spec.table
                   \o <<" ","(">> \o Join(spec.index_columns, <<","," ">>)
                   \o <<")">>)
    [] OTHER -> Raised("UnboundLocalError")

\* the lengths the schemas of schema.py give their columns
Lengths == {1, 500, 1023}

SupportedTypes ==
  {ColumnType("BoolColumnType", NoLength), ColumnType("Int64ColumnType", NoLength)}
    \cup {ColumnType(t, NoLength) : t \in {"BytesColumnType", "StringColumnType"}}
    \cup {ColumnType(t, Length(n)) :
            t \in {"BytesColumnType", "StringColumnType"}, n \in Lengths}

\* the column types: the four variants and the base class
ColumnTypes == SupportedTypes \cup {ColumnType("ColumnType", NoLength)}

\* the sequences of different names among names, in any order
KeySequences(names) ==
  {keys \in UNION {[1..n -> Range(names)] : n \in 1..Len(names)} :
     \A i, j \in 1..Len(keys) : i # j => keys[i] # keys[j]}

\* the tables of up to MaxColumns columns of the four variants, named by
\* the pool in its order, with their keys among their columns
TableSchemas ==
  UNION { { TableSchema(TableName,
                        [k \in 1..n |-> ColumnSchema(ColumnPool[k], types[k])],
                        keys) :
            types \in [1..n -> SupportedTypes],
            keys \in KeySequences(Columns(n)) } :
          n \in 1..MaxColumns }

IndexSchemas ==
  { IndexSchema(<<"I","x">>, TableName, keys) :
      keys \in KeySequences(Columns(MaxColumns)) }

NoSchema == TableSchema(<<>>, <<>>, <<>>)

\* the calls of the two functions
TypeCalls ==
  { [function |-> "to_spanner_type", column_type |-> column_type,
     spec |-> NoSchema, done |-> FALSE, out |-> <<>>, err |-> ""] :
    column_type \in ColumnTypes }

DDLCalls ==
  { [function |-> "to_spanner_ddl",
     column_type |-> ColumnType("ColumnType", NoLength),
     spec |-> spec, done |-> FALSE, out |-> <<>>, err |-> ""] :
    spec \in TableSchemas \cup IndexSchemas }

InitSchema ==
  /\ Constructed
  /\ parsing = NotParsing
  /\ converting \in TypeCalls \cup DDLCalls

\* the outcome r of the call recorded
Converted(r) ==
  converting' = [converting EXCEPT !.done = TRUE, !.out = r.out,
                                   !.err = r.err]

ConvertType ==
  /\ ~converting.done
  /\ converting.function = "to_spanner_type"
  /\ Converted(to_spanner_type(converting.column_type))
  /\ UNCHANGED <<single, connected, parsing>>

ConvertDDL ==
  /\ ~converting.done
  /\ converting.function = "to_spanner_ddl"
  /\ Converted(to_spanner_ddl(converting.spec))
  /\ UNCHANGED <<single, connected, parsing>>

NextSchema == ConvertType \/ ConvertDDL

SpecSchema == InitSchema /\ [][NextSchema]_vars

\* ------------------------------------------------------------------------
\* Properties
\* ------------------------------------------------------------------------
\* the step is a call of op on the cursor (a call that changes nothing at
\* all is a stuttering step, which [A]_vars admits)
Called(op) == lastOp'.op = op

\* the step is a call of execute that returned without raising
Executed == Called("execute") /\ lastOp'.err = ""

\* what parse_sql made of the statement of the call c
ParsedOf(c) == Parsed(c.sql, c.params)

\* the last call was an execute of kind k that returned without raising
LastExecuted(k) ==
  /\ lastOp.op = "execute"
  /\ lastOp.err = ""
  /\ ParsedOf(lastOp).kind = k

Last(s) == s[Len(s)]

\* the rows p .. q-1 (0-based) of the buffer, in buffer order
Rows(p, q) == [k \in 1..(IF q > p THEN q - p ELSE 0) |-> results[p + k]]

Min(a, b) == IF a < b THEN a ELSE b

\* C1: a successful execute of a statement parse_sql classifies as an INSERT
\* commits exactly one more batch, holding exactly one insert of exactly one
\* row, of the parsed table, columns and values in their parsed order, and
\* creates no session and runs no query; a successful execute of a SELECT
\* commits no batch.
C1_InsertIsOneSingleRowBatch ==
  [][Executed =>
       LET parsed == ParsedOf(lastOp') IN
       /\ parsed.kind = "insert" =>
            /\ Len(batches') = Len(batches) + 1
            /\ SubSeq(batches', 1, Len(batches)) = batches
            /\ Len(Last(batches')) = 1
            /\ Last(batches')[1].op = "insert"
            /\ Last(batches')[1].table = parsed.table
            /\ Last(batches')[1].columns = parsed.columns
            /\ Len(Last(batches')[1].values) = 1
            /\ Last(batches')[1].values[1] = parsed.values
            /\ sessions' = sessions
            /\ streamed' = streamed
       /\ parsed.kind = "select" => batches' = batches]_vars

\* C1 witness: the INSERT of (1, "p") into T (a, b) was committed as the
\* second batch of the cursor
C1_Witness ==
  /\ LastExecuted("insert")
  /\ Len(batches) = 2
  /\ batches[2] = << [op |-> "insert", table |-> <<"T">>,
                      columns |-> << <<"a">>, <<"b">> >>,
                      values |-> << << <<"1">>, <<"\"", "p", "\"">> >> >>] >>

\* C2: after a successful execute of an INSERT the cursor is idle: fetchone
\* would signal no-more-rows and fetchmany and fetchall would return no
\* rows, whatever SELECT ran before.
C2_IdleAfterInsert ==
  LastExecuted("insert") => ~(rindex < Len(results))

\* C3: a successful execute of a SELECT leaves in the buffer exactly the rows
\* the backend streamed, in their order, the read position at 0, rowcount at
\* their number, and one 7-field description per selected column, in
\* select-list order, holding the column name and six nulls.
C3_SelectBuffersResult ==
  [][(Executed /\ ParsedOf(lastOp').kind = "select") =>
       LET parsed == ParsedOf(lastOp') IN
       /\ results' = streamed'
       /\ rindex' = 0
       /\ rowcount' = Len(streamed')
       /\ Len(description') = Len(parsed.columns)
       /\ \A k \in 1..Len(description') :
            /\ Len(description'[k]) = 7
            /\ description'[k][1] = parsed.columns[k]
            /\ \A j \in 2..7 : description'[k][j] = None]_vars

\* C3 witness: the second SELECT of the cursor, of columns a and b, returned
\* two rows
C3_Witness ==
  /\ LastExecuted("select")
  /\ Len(sessions) = 2
  /\ results = <<2, 1>>
  /\ rindex = 0
  /\ Len(descriptions) = 2
  /\ descriptions[1][1] = <<"a">>
  /\ descriptions[2][1] = <<"b">>

\* C4: execute of a statement whose substituted text matches neither the
\* INSERT nor the SELECT grammar raises the unsupported-statement error,
\* commits no batch, creates no session, runs no query, and leaves the
\* buffered rows, the read position, rowcount and the descriptions as they
\* were.
C4_UnsupportedChangesNothing ==
  [][(Called("execute") /\ ParsedOf(lastOp').kind = "none") =>
       /\ lastOp'.err = UnsupportedError
       /\ results' = results
       /\ rindex' = rindex
       /\ rowcount' = rowcount
       /\ description' = description
       /\ batches' = batches
       /\ sessions' = sessions
       /\ streamed' = streamed]_vars

\* C4 witness: the UPDATE was refused while a result set was being read
C4_Witness ==
  /\ lastOp.op = "execute"
  /\ SqlInputs[lastOp.sql] = SqlUpdate
  /\ lastOp.err = UnsupportedError
  /\ Len(results) = 2
  /\ rindex = 1
  /\ Len(descriptions) = 2

\* C5: with n rows buffered and read position p, fetchone returns row p and
\* moves the position to p + 1 when p < n, and returns None, raising
\* nothing and leaving the position, when p >= n.
C5_FetchoneStep ==
  [][Called("fetchone") =>
       IF rindex < Len(results)
       THEN /\ lastOp'.ret = <<results[rindex + 1]>>
            /\ ~lastOp'.none
            /\ lastOp'.err = ""
            /\ rindex' = rindex + 1
       ELSE /\ lastOp'.none
            /\ lastOp'.ret = <<>>
            /\ lastOp'.err = ""
            /\ rindex' = rindex]_vars

\* C5 witness: fetchone returned the last of two rows
C5_Witness ==
  /\ lastOp.op = "fetchone"
  /\ Len(results) = 2
  /\ rindex = 2
  /\ lastOp.ret = <<results[2]>>

\* C6: fetchmany(k) returns the rows p .. min(p + k, n) - 1 and advances the
\* read position by the number of rows it returned.
C6_FetchmanyAdvancesByReturned ==
  [][(Called("fetchmany") /\ lastOp'.size.given) =>
       /\ lastOp'.ret = Rows(rindex, Min(rindex + lastOp'.size.n, Len(results)))
       /\ rindex' = rindex + Len(lastOp'.ret)]_vars

\* the read position is at or past the end of the buffer
Drained == rindex >= Len(results)

\* C7: fetchall returns the rows p .. n-1 in buffer order and leaves the
\* position at n; right after a SELECT it returns the whole result set; and
\* from then until the next successful SELECT no fetchone, fetchmany or
\* fetchall returns a row.
C7_FetchallDrains ==
  [][/\ Called("fetchall") =>
          /\ lastOp'.ret = Rows(rindex, Len(results))
          /\ rindex' = Len(results)
          /\ Drained'
          /\ LastExecuted("select") => lastOp'.ret = results
     /\ (Drained /\ ~(Executed /\ ParsedOf(lastOp').kind = "select")) =>
          /\ Drained'
          /\ lastOp'.op \in {"fetchone", "fetchmany", "fetchall"} =>
               lastOp'.ret = <<>>]_vars

\* C7 witness: fetchall returned the second of two rows after the first had
\* been fetched
C7_Witness ==
  /\ lastOp.op = "fetchall"
  /\ Len(results) = 2
  /\ lastOp.ret = <<results[2]>>
  /\ rindex = 2

\* C8: iterating the cursor yields every buffered row once, in buffer order
\* from row 0, wherever the read position is, and changes neither the
\* buffer, nor the read position, nor rowcount.
C8_IterationFromStart ==
  [][Called("iter") =>
       /\ Len(lastOp'.ret) = Len(results)
       /\ \A k \in 1..Len(results) : lastOp'.ret[k] = results[k]
       /\ results' = results
       /\ rindex' = rindex
       /\ rowcount' = rowcount]_vars

\* C8 witness: an iteration yielded both rows after one had been fetched
C8_Witness ==
  /\ lastOp.op = "iter"
  /\ results = <<1, 2>>
  /\ rindex = 1
  /\ lastOp.ret = <<1, 2>>

\* C9: once close has returned, no session the cursor created is open.
C9_CloseReleasesSessions ==
  lastOp.op = "close" => \A k \in 1..Len(sessions) : ~sessions[k].open

\* C10: a close that follows a close raises nothing and leaves the state as
\* the first close left it.
C10_CloseIdempotent ==
  [][(lastOp.op = "close" /\ Called("close")) =>
       /\ lastOp'.err = ""
       /\ cursor' = cursor
       /\ database' = database
       /\ backend' = backend]_vars

\* C10 witness: close returned on a cursor holding a result set and a session
C10_Witness ==
  /\ lastOp.op = "close"
  /\ lastOp.err = ""
  /\ Len(results) = 2
  /\ rindex = 1
  /\ Len(sessions) = 1

\* C11: all cursors of a connection and all their execute calls run on the
\* one database handle the connection resolves once and caches: a step
\* constructs an instance handle or a database handle only as the handle
\* the connection caches, and the database handle a cursor has executed on
\* is the connection's.
C11_CursorsShareConnectionHandle ==
  [][/\ instances' > instances => connection'.instance = instances'
     /\ Len(databases') > Len(databases) =>
          connection'.database = Len(databases')
     /\ \A c \in 1..Len(cursors') :
          cursors'[c].database # NoHandle =>
            cursors'[c].database = connection'.database]_vars

\* rowcount and description of cursor c of the connection
Cursor_rowcount(c) == Len(cursors[c].results)

Cursor_description(c) == cursors[c].descriptions

\* C12: a call on the connection or on one of its cursors leaves the
\* buffered rows, the read position, rowcount and description of every
\* other cursor as they were.
C12_CursorsOwnTheirBuffers ==
  [][\A d \in 1..Len(cursors) :
       d # lastCall'.cursor =>
         /\ d <= Len(cursors')
         /\ cursors'[d].results = cursors[d].results
         /\ cursors'[d].rindex = cursors[d].rindex
         /\ Cursor_rowcount(d)' = Cursor_rowcount(d)
         /\ Cursor_description(d)' = Cursor_description(d)]_vars

\* C12 witness: the second cursor ran its SELECT while the first was half
\* way through the two rows of its own
C12_Witness ==
  /\ Len(cursors) = 2
  /\ lastCall = [cursor |-> 2, op |-> "execute"]
  /\ cursors[1].results = <<1, 2>>
  /\ cursors[1].rindex = 1
  /\ Len(cursors[1].descriptions) = 2
  /\ cursors[2].results = <<2>>
  /\ cursors[2].rindex = 0
  /\ Len(cursors[2].descriptions) = 1

\* C17: the rows fetchone, fetchmany and fetchall have returned since the
\* last successful SELECT, in call order, are the first rows of the buffered
\* result set, in buffer order, whatever INSERTs, failed executes,
\* iterations and closes came in between.
C17_FetchedIsPrefix ==
  /\ Len(fetched) <= Len(results)
  /\ \A k \in 1..Len(fetched) : fetched[k] = results[k]

\* C17 witness: fetchmany returned the second and last row of a result set
\* whose first row an earlier call had returned, with an INSERT committed
C17_Witness ==
  /\ lastOp.op = "fetchmany"
  /\ lastOp.ret = <<1>>
  /\ results = <<2, 1>>
  /\ fetched = <<2, 1>>
  /\ rindex > Len(results)
  /\ Len(batches) > 0

\* the text of a parameter in the substituted statement: a string in one
\* pair of double quotes, an integer or a boolean as it prints
ParamText(p) == IF p.t = "str" THEN <<"\"">> \o p.s \o <<"\"">> ELSE Str(p)

\* C13: parse_sql on insert into T (c1, ..., ck) values (?, ..., ?) with k
\* parameters returns an Insert of table T, of the columns c1..ck in order,
\* and of exactly k values, the i-th being the text of the i-th parameter.
C13_InsertParsed ==
  (parsing.done /\ parsing.form = "insert") =>
    /\ parsing.parsed.kind = "insert"
    /\ parsing.parsed.table = parsing.table
    /\ parsing.parsed.columns = parsing.columns
    /\ Len(parsing.parsed.values) = Len(parsing.parameters)
    /\ \A i \in 1..Len(parsing.parameters) :
         parsing.parsed.values[i] = ParamText(parsing.parameters[i])

RECURSIVE Substituted(_, _)
\* the statement with its i-th ? replaced by the text of the i-th parameter
\* and every other character kept
Substituted(sql, parameters) ==
  IF sql = <<>> THEN <<>>
  ELSE IF Head(sql) = "?" /\ parameters # <<>>
  THEN ParamText(Head(parameters)) \o Substituted(Tail(sql), Tail(parameters))
  ELSE <<Head(sql)>> \o Substituted(Tail(sql), parameters)

\* C14: parse_sql on select c1, ..., ck from T <rest> returns a Select of
\* table T, of the columns c1..ck in order, whose raw query is the statement
\* with its placeholders replaced by the parameters, left to right, and
\* nothing else changed.
C14_SelectParsed ==
  (parsing.done /\ parsing.form = "select") =>
    /\ parsing.parsed.kind = "select"
    /\ parsing.parsed.table = parsing.table
    /\ parsing.parsed.columns = parsing.columns
    /\ parsing.parsed.sql = Substituted(parsing.sql, parsing.parameters)

\* the text pat stands at position i of s
TextAt(s, i, pat) ==
  /\ i >= 1
  /\ i + Len(pat) - 1 <= Len(s)
  /\ \A k \in 1..Len(pat) : s[i + k - 1] = pat[k]

\* the first position of pat in s, 0 when there is none
Find(s, pat) == FirstOr({i \in 1..Len(s) : TextAt(s, i, pat)}, 0)

RECURSIVE SplitOn(_, _)
\* the pieces of s between the occurrences of sep
SplitOn(s, sep) ==
  IF Find(s, sep) = 0 THEN <<s>>
  ELSE <<Sub(s, 1, Find(s, sep) - 1)>>
         \o SplitOn(Sub(s, Find(s, sep) + Len(sep), Len(s)), sep)

CreateTable == <<"C","R","E","A","T","E"," ","T","A","B","L","E"," ">>

PrimaryKey == <<")"," ","P","R","I","M","A","R","Y"," ","K","E","Y"," ","(">>

\* the text of DDL between its head CREATE TABLE <name> ( and PRIMARY KEY
ColumnsOf(ddl, head) == Sub(ddl, Len(head) + 1, Find(ddl, PrimaryKey) - 1)

\* the text of DDL between PRIMARY KEY ( and the closing parenthesis
KeysOf(ddl) == Sub(ddl, Find(ddl, PrimaryKey) + Len(PrimaryKey), Len(ddl) - 1)

\* the DDL text reads CREATE TABLE <name> (<col> <type>, ...) PRIMARY KEY
\* (<keys>) with the columns of spec in their order, each with its backend
\* type, and the keys of spec in their order
HasTableForm(ddl, spec, head) ==
  /\ TextAt(ddl, 1, head)
  /\ Find(ddl, PrimaryKey) > Len(head)
  /\ ddl[Len(ddl)] = ")"
  /\ Len(SplitOn(ColumnsOf(ddl, head), <<","," ">>)) = Len(spec.columns)
  /\ \A k \in 1..Len(spec.columns) :
       SplitOn(ColumnsOf(ddl, head), <<","," ">>)[k] =
         spec.columns[k].name \o <<" ">>
           \o to_spanner_type(spec.columns[k].value_type).out
  /\ SplitOn(KeysOf(ddl), <<","," ">>) = spec.keys

\* C15: to_spanner_ddl of a TableSchema returns CREATE TABLE <name> (<col>
\* <type>, ...) PRIMARY KEY (<keys>), with every column of the table once, in
\* declaration order, each followed by its backend type, and exactly the keys
\* of the table in their declared order.
C15_TableDDL ==
  (converting.done /\ converting.function = "to_spanner_ddl"
     /\ converting.spec.kind = "TableSchema") =>
    /\ converting.err = ""
    /\ HasTableForm(converting.out, converting.spec,
                    CreateTable \o converting.spec.name \o <<" ","(">>)

\* C15 witness: the DDL of a table of two columns whose key lists them in
\* the other order
C15_Witness ==
  /\ converting.done
  /\ converting.function = "to_spanner_ddl"
  /\ converting.spec.kind = "TableSchema"
  /\ converting.spec.keys = << <<"b","_","1">>, <<"a">> >>
  /\ converting.out = 
       <<"C","R","E","A","T","E"," ","T","A","B","L","E"," ","E","v","_","1"," ","(","a"," ","I","N","T","6","4",","," ","b","_","1"," ","S","T","R","I","N","G","(","1","0","2","3",")",")"," ","P","R","I","M","A","R","Y"," ","K","E","Y"," ","(","b","_","1",","," ","a",")">>

\* C16: to_spanner_type returns BOOL for Bool, INT64 for Int64, BYTES(n) or
\* STRING(n) for Bytes or String of length n, BYTES(MAX) or STRING(MAX) for
\* Bytes or String of no length, and for any other column type raises the
\* unsupported-type error and returns nothing.
C16_TypeMapping ==
  (converting.done /\ converting.function = "to_spanner_type") =>
    LET type == converting.column_type.type
        length == converting.column_type.length
    IN  CASE type = "BoolColumnType" ->
               converting.err = "" /\ converting.out = <<"B","O","O","L">>
          [] type = "Int64ColumnType" ->
               converting.err = "" /\ converting.out = <<"I","N","T","6","4">>
          [] type = "BytesColumnType" ->
               /\ converting.err = ""
               /\ converting.out =
                    <<"B","Y","T","E","S","(">>
                      \o (IF length.given THEN Digits(length.n)
                          ELSE <<"M","A","X">>) \o <<")">>
          [] type = "StringColumnType" ->
               /\ converting.err = ""
               /\ converting.out =
                    <<"S","T","R","I","N","G","(">>
                      \o (IF length.given THEN Digits(length.n)
                          ELSE <<"M","A","X">>) \o <<")">>
          [] OTHER -> converting.err = "ValueError" /\ converting.out = <<>>

\* C16 witness: a String column of length 1023 was given its type
C16_Witness ==
  /\ converting.done
  /\ converting.function = "to_spanner_type"
  /\ converting.column_type = ColumnType("StringColumnType", Length(1023))
  /\ converting.out = <<"S","T","R","I","N","G","(","1","0","2","3",")">>

====
